---- MODULE Spec2Model ----
(***************************************************************************)
(* A model of coresched (src/coresched.c, lines 1-295): the command-line   *)
(* front end that gets, creates, copies core scheduling cookies and execs  *)
(* a program under a cookie, together with the kernel's PR_SCHED_CORE      *)
(* interface it drives and the parent/child processes it forks.            *)
(***************************************************************************)
EXTENDS Integers, Sequences, FiniteSets, TLC

(***************************************************************************)
(* Bounds of the model.                                                    *)
(***************************************************************************)
\* the largest argc of one invocation, argv[0] included and an option
\* counted together with its argument
MaxArgc == 5
\* cookies the tasks may hold before the first invocation: 0..MaxInitCookie
MaxInitCookie == 1
\* how many times SpecRepeat runs a command line
MaxRuns == 2
\* the longest string of PidAlphabet handed to parse_pid on its own
MaxPidLen == 3
\* how many cookies other invocations may create beside this one
MaxEnv == 2

(***************************************************************************)
(* Program and platform constants.                                         *)
(***************************************************************************)
\* core_sched_type_t, from the kernel's PR_SCHED_CORE_SCOPE_* values
SCHED_CORE_SCOPE_PID == 0
SCHED_CORE_SCOPE_TGID == 1
SCHED_CORE_SCOPE_PGID == 2

\* core_sched_cmd_t
SCHED_CORE_CMD_GET == 0
SCHED_CORE_CMD_CREATE == 1
SCHED_CORE_CMD_COPY == 2
SCHED_CORE_CMD_EXEC == 3

\* errno values the kernel reports for PR_SCHED_CORE
EPERM == 1
ESRCH == 3
ENODEV == 19

\* argp_err_exit_status: what argp_error and argp_usage exit with (EX_USAGE)
EX_USAGE == 64

\* 16-bit limbs: a C long is four of them, a pid_t (int) the low two
LimbBase == 2^16
HalfLimb == 2^15

(***************************************************************************)
(* exit(n): the status the caller of the process observes is n & 0377.     *)
(***************************************************************************)
ExitStatus(n) == n % 256

\* W_EXITCODE(ret, 0): the wait status waitpid stores for a child that
\* called exit(ret)
WaitStatus(ret) == (ret % 256) * 256

(***************************************************************************)
(* strtol(str, &tailptr, 10) on a string given as a sequence of            *)
(* characters.  The magnitude is kept in four 16-bit limbs, least          *)
(* significant first, with a flag for a value that left the range of long. *)
(***************************************************************************)
Digits == <<"0", "1", "2", "3", "4", "5", "6", "7", "8", "9">>
IsDigit(c) == \E i \in 1..10 : Digits[i] = c
DigitVal(c) == (CHOOSE i \in 1..10 : Digits[i] = c) - 1
IsSpace(c) == c = " "

ZeroMag == [l0 |-> 0, l1 |-> 0, l2 |-> 0, l3 |-> 0, over |-> FALSE]

\* m * 10 + d, limb by limb
MulAdd(m, d) ==
    LET s0 == m.l0 * 10 + d
        s1 == m.l1 * 10 + s0 \div LimbBase
        s2 == m.l2 * 10 + s1 \div LimbBase
        s3 == m.l3 * 10 + s2 \div LimbBase
    IN  [l0 |-> s0 % LimbBase, l1 |-> s1 % LimbBase, l2 |-> s2 % LimbBase,
         l3 |-> s3 % LimbBase, over |-> m.over \/ s3 >= LimbBase]

\* the position after the leading white space of str, from i
RECURSIVE SkipSpace(_, _)
SkipSpace(str, i) ==
    IF i <= Len(str) /\ IsSpace(str[i]) THEN SkipSpace(str, i + 1) ELSE i

\* the digits of str from i on: [mag, next], next the first position not read
RECURSIVE ReadDigits(_, _, _)
ReadDigits(str, i, m) ==
    IF i <= Len(str) /\ IsDigit(str[i])
    THEN ReadDigits(str, i + 1, MulAdd(m, DigitVal(str[i])))
    ELSE [mag |-> m, next |-> i]

\* the int a long converts to: its low 32 bits, two's complement.
\* (hi, lo) are the low two limbs of the long's bit pattern.
Signed32(hi, lo) ==
    IF hi < HalfLimb THEN hi * LimbBase + lo ELSE (hi - LimbBase) * LimbBase + lo

\* the low two limbs of -(hi, lo) modulo 2^32
NegLo(hi, lo) == IF lo = 0 THEN 0 ELSE LimbBase - lo
NegHi(hi, lo) == IF lo = 0 THEN (LimbBase - hi) % LimbBase ELSE LimbBase - 1 - hi

\* strtol followed by the conversion of its long result to pid_t:
\* [pid, tail] with tail the index tailptr points at (1 = str itself,
\* Len(str) + 1 = the terminating NUL)
strtol(str) ==
    LET s == SkipSpace(str, 1)
        hasSign == s <= Len(str) /\ str[s] \in {"-", "+"}
        neg == hasSign /\ str[s] = "-"
        d == IF hasSign THEN s + 1 ELSE s
        r == ReadDigits(str, d, ZeroMag)
        m == r.mag
        \* magnitude above LONG_MAX (2^63 - 1), resp. above 2^63 when negative
        posOver == m.over \/ m.l3 >= HalfLimb
        negOver == m.over \/ m.l3 > HalfLimb
                   \/ (m.l3 = HalfLimb /\ (m.l2 # 0 \/ m.l1 # 0 \/ m.l0 # 0))
    IN  IF r.next = d
        THEN [pid |-> 0, tail |-> 1]                  \* no digits: tailptr = str
        ELSE IF neg
        THEN [pid |-> IF negOver THEN 0               \* (int) LONG_MIN
                      ELSE Signed32(NegHi(m.l1, m.l0), NegLo(m.l1, m.l0)),
              tail |-> r.next]
        ELSE [pid |-> IF posOver THEN -1              \* (int) LONG_MAX
                      ELSE Signed32(m.l1, m.l0),
              tail |-> r.next]

\* parse_pid: [ok, pid]; ok = FALSE stands for the call of argp_error
parse_pid(str) ==
    LET r == strtol(str)
    IN  IF r.tail = Len(str) + 1 /\ r.tail # 1
        THEN [ok |-> r.pid >= 0, pid |-> r.pid]
        ELSE [ok |-> FALSE, pid |-> r.pid]

\* parse_core_sched_type: [ok, type]
parse_core_sched_type(str) ==
    IF str = "pid" THEN [ok |-> TRUE, type |-> SCHED_CORE_SCOPE_PID]
    ELSE IF str = "tgid" THEN [ok |-> TRUE, type |-> SCHED_CORE_SCOPE_TGID]
    ELSE IF str = "pgid" THEN [ok |-> TRUE, type |-> SCHED_CORE_SCOPE_PGID]
    ELSE [ok |-> FALSE, type |-> SCHED_CORE_SCOPE_PGID]

\* parse_cmd: [ok, cmd]
parse_cmd(arg) ==
    IF arg = "get" THEN [ok |-> TRUE, cmd |-> SCHED_CORE_CMD_GET]
    ELSE IF arg = "create" THEN [ok |-> TRUE, cmd |-> SCHED_CORE_CMD_CREATE]
    ELSE IF arg = "copy" THEN [ok |-> TRUE, cmd |-> SCHED_CORE_CMD_COPY]
    ELSE IF arg = "exec" THEN [ok |-> TRUE, cmd |-> SCHED_CORE_CMD_EXEC]
    ELSE [ok |-> FALSE, cmd |-> SCHED_CORE_CMD_GET]

\* the two messages of verify_arguments
copying_requires_dest_msg == "Copying a core scheduling cookie requires a destination PID"
retrieve_requires_source_msg == "Retrieving a core scheduling cookie requires a source PID"

\* verify_arguments as it was before exec was added (src/unnamed/part_000)
verify_arguments_part_000(a) ==
    IF a.from_pid # 0
    THEN IF a.cmd = SCHED_CORE_CMD_COPY /\ a.to_pid = 0
         THEN [ok |-> FALSE, error_msg |-> copying_requires_dest_msg]
         ELSE [ok |-> TRUE, error_msg |-> "NULL"]
    ELSE [ok |-> FALSE, error_msg |-> retrieve_requires_source_msg]

\* a validator that forgets the destination of Copy
verify_arguments_source_only(a) ==
    IF a.from_pid # 0 \/ a.cmd = SCHED_CORE_CMD_EXEC
    THEN [ok |-> TRUE, error_msg |-> "NULL"]
    ELSE [ok |-> FALSE, error_msg |-> retrieve_requires_source_msg]

\* verify_arguments: [ok, error_msg]
verify_arguments(a) ==
    IF a.from_pid # 0 \/ a.cmd = SCHED_CORE_CMD_EXEC
    THEN IF a.cmd = SCHED_CORE_CMD_COPY /\ a.to_pid = 0
         THEN [ok |-> FALSE, error_msg |-> copying_requires_dest_msg]
         ELSE [ok |-> TRUE, error_msg |-> "NULL"]
    ELSE [ok |-> FALSE, error_msg |-> retrieve_requires_source_msg]

(***************************************************************************)
(* The tasks of the system.  Tasks 1 and 2 are two threads of one process, *)
(* task 3 is another process of their process group.  The tool runs as     *)
(* ParentPid, in a process group it shares with task 6 (a sibling job of   *)
(* the invoking shell); the child it forks is ChildPid.                    *)
(***************************************************************************)
ParentPid == 4
ChildPid == 5
OtherTasks == {1, 2, 3, 6}

Tgid(t) == IF t = 2 THEN 1 ELSE t
Pgid(t) == IF t \in {1, 2, 3} THEN 1 ELSE ParentPid

(***************************************************************************)
(* The command line: the strings a user may give for a task identifier,    *)
(* a scope keyword and a command word.                                     *)
(***************************************************************************)
PidStrings ==
    { <<>>, <<"0">>, <<"1">>, <<"3">>, <<"9">>, <<"1", "x">>, <<"-", "1">>,
      <<"4", "2", "9", "4", "9", "6", "7", "2", "9", "7">>,
      <<"4", "2", "9", "4", "9", "6", "7", "2", "9", "6">>,
      <<"2", "1", "4", "7", "4", "8", "3", "6", "5", "1">> }
TypeStrings == {"pid", "tgid", "pgid", "pgrp"}
CmdStrings == {"get", "create", "copy", "exec", "set"}

\* the characters a task identifier is typed with, and every string of them
\* up to MaxPidLen characters
PidAlphabet == {"0", "1", "9", "x", "-", "+", " "}
RECURSIVE StringsUpTo(_)
StringsUpTo(n) ==
    IF n = 0 THEN { <<>> }
    ELSE LET shorter == StringsUpTo(n - 1)
         IN  shorter \cup { Append(str, c) : str \in shorter, c \in PidAlphabet }
\* identifiers at and beyond the ends of int and of long
LongPidStrings ==
    { <<"0", "0", "0", "0", "7">>,
      <<"2", "1", "4", "7", "4", "8", "3", "6", "4", "7">>,
      <<"2", "1", "4", "7", "4", "8", "3", "6", "4", "8">>,
      <<"4", "2", "9", "4", "9", "6", "7", "2", "9", "5">>,
      <<"9", "2", "2", "3", "3", "7", "2", "0", "3", "6", "8", "5", "4", "7",
        "7", "5", "8", "0", "8">>,
      <<"-", "4", "2", "9", "4", "9", "6", "7", "2", "9", "5">> }
PidInputs == PidStrings \cup LongPidStrings \cup StringsUpTo(MaxPidLen)

VARIABLES
    args,       \* struct args of the top-level process
    argp,       \* struct argp_state: [argc, next, quoted]
    ppc,        \* where the top-level process is
    pstatus,    \* its exit status as its caller observes it, -1 while it runs
    cargs,      \* struct args of the forked child (its own copy after fork)
    cpc,        \* where the forked child is, "none" before fork
    cstatus,    \* the child's exit status, -1 while it runs or after exec
    cookie,     \* the kernel's cookie of every task
    nextCookie, \* the next cookie PR_SCHED_CORE_CREATE allocates
    klog,       \* the PR_SCHED_CORE calls issued by this invocation, in order
    out,        \* the lines this invocation wrote, in order
    run,        \* the number of the invocation
    cookie0,    \* history: the cookies when this invocation started
    prev,       \* history: the invocation before this one, as it ended
    firstArg,   \* history: the first argument parse_cmd was given, "" if none
    pidstr,     \* the string handed to parse_pid on its own
    pidres      \* what parse_pid made of pidstr: [done, ok, pid]

vars == <<args, argp, ppc, pstatus, cargs, cpc, cstatus, cookie, nextCookie,
          klog, out, run, cookie0, prev, firstArg, pidstr, pidres>>

\* the history variables, which no step of an invocation changes
hist == <<cookie0, prev, pidstr, pidres>>

\* struct args arguments = { 0 }; arguments.type = SCHED_CORE_SCOPE_PGID;
InitArgs ==
    [from_pid |-> 0, to_pid |-> 0, type |-> SCHED_CORE_SCOPE_PGID,
     cmd |-> SCHED_CORE_CMD_GET, exec_argv_offset |-> 0]

\* the state argp_parse starts from: argv[0] alone has been seen
InitArgp == [argc |-> 1, quoted |-> 0]

(***************************************************************************)
(* The kernel's side of prctl(PR_SCHED_CORE, ...).                         *)
(***************************************************************************)
\* the task a pid names to the kernel: 0 is the calling task
Target(caller, pid) == IF pid = 0 THEN caller ELSE pid

\* the tasks PR_SCHED_CORE_SCOPE_* covers around task t
ScopeTasks(ck, t, type) ==
    IF type = SCHED_CORE_SCOPE_PID THEN {t}
    ELSE IF type = SCHED_CORE_SCOPE_TGID
    THEN {u \in DOMAIN ck : Tgid(u) = Tgid(t)}
    ELSE {u \in DOMAIN ck : Pgid(u) = Pgid(t)}

\* the errno values a call on pid may end with; 0 is success
KernelOutcomes(ck, caller, pid) ==
    IF Target(caller, pid) \in DOMAIN ck THEN {0, EPERM, ENODEV} ELSE {ESRCH}

\* PR_SCHED_CORE_GET: the cookie of the task
KernelGet(ck, caller, pid) == ck[Target(caller, pid)]

\* PR_SCHED_CORE_CREATE: a new cookie for every task of the scope
KernelCreate(ck, caller, pid, type, fresh) ==
    [u \in DOMAIN ck |->
        IF u \in ScopeTasks(ck, Target(caller, pid), type) THEN fresh ELSE ck[u]]

\* PR_SCHED_CORE_SHARE_FROM: the caller takes the cookie of the task
KernelShareFrom(ck, caller, pid) ==
    [ck EXCEPT ![caller] = ck[Target(caller, pid)]]

\* PR_SCHED_CORE_SHARE_TO: every task of the scope takes the caller's cookie
KernelShareTo(ck, caller, pid, type) ==
    [u \in DOMAIN ck |->
        IF u \in ScopeTasks(ck, Target(caller, pid), type) THEN ck[caller] ELSE ck[u]]

\* what prctl returns to its caller: 0, or -1 with errno set
prctl(err) == IF err = 0 THEN 0 ELSE -1

\* one entry of klog
Call(by, op, pid, type, err) ==
    [by |-> by, op |-> op, pid |-> pid, type |-> type, err |-> err]

\* one entry of out
Line(by, tag, a, b) == [by |-> by, tag |-> tag, a |-> a, b |-> b]

(***************************************************************************)
(* The initial state: main has set up arguments and calls argp_parse.      *)
(***************************************************************************)
MainStarts ==
    /\ args = InitArgs
    /\ argp = InitArgp
    /\ ppc = "parse"
    /\ pstatus = -1
    /\ cargs = InitArgs
    /\ cpc = "none"
    /\ cstatus = -1
    /\ \E c1 \in 0..MaxInitCookie, c3 \in 0..MaxInitCookie, c6 \in 0..MaxInitCookie :
          cookie = [t \in OtherTasks \cup {ParentPid} |->
                       IF t \in {1, 2} THEN c1 ELSE IF t = 3 THEN c3 ELSE c6]
    /\ nextCookie = MaxInitCookie + 1
    /\ klog = <<>>
    /\ out = <<>>
    /\ run = 1
    /\ cookie0 = cookie
    /\ prev = [run |-> 0, cmd |-> SCHED_CORE_CMD_GET, pstatus |-> -1,
               cstatus |-> -1, cookie |-> cookie]
    /\ firstArg = ""
    /\ pidres = [done |-> FALSE, ok |-> FALSE, pid |-> 0]

Init == MainStarts /\ pidstr = <<>>

\* the top-level process ends: exit(n), or main returns n
ParentExits(n) ==
    /\ ppc' = "exited"
    /\ pstatus' = ExitStatus(n)

\* argp_error under ARGP_NO_EXIT: the line is written and parsing goes on
ArgpErrorReturns(tag) ==
    /\ out' = Append(out, Line("parent", tag, 0, 0))
    /\ UNCHANGED <<args, argp, ppc, pstatus, cargs, cpc, cstatus, cookie,
                   nextCookie, klog, run, hist, firstArg>>

\* argp_error and argp_usage: a line on stderr, then exit(argp_err_exit_status)
ArgpError(tag) ==
    /\ out' = Append(out, Line("parent", tag, 0, 0))
    /\ ParentExits(EX_USAGE)
    /\ UNCHANGED <<args, argp, cargs, cpc, cstatus, cookie, nextCookie, klog,
                   run, hist, firstArg>>

\* parse_opt leaves with the arguments updated and argp moves on
ParseOn(newArgs, newArgp) ==
    /\ args' = newArgs
    /\ argp' = newArgp
    /\ UNCHANGED <<ppc, pstatus, cargs, cpc, cstatus, cookie, nextCookie, klog,
                   out, run, hist>>

Consumed == [argp EXCEPT !.argc = @ + 1]

\* parse_opt, case ARGP_KEY_ARG with state->quoted = 0: a command word
ParseArg(word) ==
    /\ ppc = "parse" /\ argp.quoted = 0 /\ argp.argc < MaxArgc
    /\ LET r == parse_cmd(word)
       IN  IF r.ok
           THEN /\ ParseOn([args EXCEPT !.cmd = r.cmd], Consumed)
                /\ firstArg' = IF firstArg = "" THEN word ELSE firstArg
           ELSE ArgpError("unknown_command")

\* parse_opt, case ARGP_KEY_ARG with state->quoted set: an argument after "--"
ParseQuotedArg ==
    /\ ppc = "parse" /\ argp.quoted # 0 /\ argp.argc < MaxArgc
    /\ ParseOn([args EXCEPT !.exec_argv_offset = argp.quoted], Consumed)
    /\ UNCHANGED firstArg

\* argp meets "--": state->quoted is the index of the argument after it
ArgpQuote ==
    /\ ppc = "parse" /\ argp.quoted = 0 /\ argp.argc < MaxArgc
    /\ ParseOn(args, [argc |-> argp.argc + 1, quoted |-> argp.argc + 1])
    /\ UNCHANGED firstArg

\* parse_opt, case 'p'
ParseOptP(str) ==
    /\ ppc = "parse" /\ argp.quoted = 0 /\ argp.argc < MaxArgc
    /\ LET r == parse_pid(str)
       IN  IF r.ok
           THEN /\ ParseOn([args EXCEPT !.from_pid = r.pid], Consumed)
                /\ UNCHANGED firstArg
           ELSE ArgpError("bad_pid")

\* parse_opt, case 'd'
ParseOptD(str) ==
    /\ ppc = "parse" /\ argp.quoted = 0 /\ argp.argc < MaxArgc
    /\ LET r == parse_pid(str)
       IN  IF r.ok
           THEN /\ ParseOn([args EXCEPT !.to_pid = r.pid], Consumed)
                /\ UNCHANGED firstArg
           ELSE ArgpError("bad_pid")

\* parse_opt, case 't'
ParseOptT(str) ==
    /\ ppc = "parse" /\ argp.quoted = 0 /\ argp.argc < MaxArgc
    /\ LET r == parse_core_sched_type(str)
       IN  IF r.ok
           THEN /\ ParseOn([args EXCEPT !.type = r.type], Consumed)
                /\ UNCHANGED firstArg
           ELSE ArgpError("bad_type")

\* the struct argp_state of argp_parse once argp_parse has returned
ArgpGone == [argc |-> 0, quoted |-> 0]

\* parse_opt, case ARGP_KEY_SUCCESS; argp_parse then returns to main
ParseSuccess ==
    /\ ppc = "parse"
    /\ IF argp.argc <= 1
       THEN ArgpError("usage")
       ELSE IF ~verify_arguments(args).ok
       THEN ArgpError(verify_arguments(args).error_msg)
       ELSE /\ ppc' = "main"
            /\ argp' = ArgpGone
            /\ UNCHANGED <<args, pstatus, cargs, cpc, cstatus, cookie,
                           nextCookie, klog, out, run, hist, firstArg>>

(***************************************************************************)
(* The commands.  error(status, errnum, ...) writes a line and, status     *)
(* being non-zero, calls exit(status).                                     *)
(***************************************************************************)
\* the forked child ends: exit(n), or its main returns n
ChildExits(n) ==
    /\ cpc' = "exited"
    /\ cstatus' = ExitStatus(n)

\* main, case SCHED_CORE_CMD_GET: exit(1) without a cookie, else main returns 0
GetExitStatusAlwaysZero(c) == 0
GetExitStatus(c) == IF c # 0 THEN 0 ELSE 1

\* main, case SCHED_CORE_CMD_GET, with core_sched_get_cookie
MainGet ==
    /\ ppc = "main" /\ args.cmd = SCHED_CORE_CMD_GET
    /\ \E err \in KernelOutcomes(cookie, ParentPid, args.from_pid) :
          LET prctl_errno == prctl(err)
              c == KernelGet(cookie, ParentPid, args.from_pid)
          IN  /\ klog' = Append(klog, Call("parent", "GET", args.from_pid,
                                           SCHED_CORE_SCOPE_PID, err))
              /\ IF prctl_errno # 0
                 THEN /\ out' = Append(out, Line("parent", "get_failed", args.from_pid, 0))
                      /\ ParentExits(prctl_errno)
                 ELSE /\ out' = Append(out, Line("parent",
                                         IF c # 0 THEN "cookie_is" ELSE "no_cookie",
                                         args.from_pid, c))
                      /\ ParentExits(GetExitStatus(c))
    /\ UNCHANGED <<args, argp, cargs, cpc, cstatus, cookie, nextCookie, run, hist, firstArg>>

\* a Create that passes 0, the calling task, where the source PID belongs
MainCreateForCaller ==
    /\ ppc = "main" /\ args.cmd = SCHED_CORE_CMD_CREATE
    /\ \E err \in KernelOutcomes(cookie, ParentPid, 0) :
          /\ klog' = Append(klog, Call("parent", "CREATE", 0, args.type, err))
          /\ IF prctl(err) # 0
             THEN /\ out' = Append(out, Line("parent", "create_failed", 0, 0))
                  /\ ParentExits(prctl(err))
                  /\ UNCHANGED <<cookie, nextCookie>>
             ELSE /\ cookie' = KernelCreate(cookie, ParentPid, 0, args.type,
                                            nextCookie)
                  /\ nextCookie' = nextCookie + 1
                  /\ ParentExits(0)
                  /\ UNCHANGED out
    /\ UNCHANGED <<args, argp, cargs, cpc, cstatus, run, hist, firstArg>>

\* main, case SCHED_CORE_CMD_CREATE, with core_sched_create_cookie
MainCreate ==
    /\ ppc = "main" /\ args.cmd = SCHED_CORE_CMD_CREATE
    /\ \E err \in KernelOutcomes(cookie, ParentPid, args.from_pid) :
          LET prctl_errno == prctl(err)
          IN  /\ klog' = Append(klog, Call("parent", "CREATE", args.from_pid,
                                           args.type, err))
              /\ IF prctl_errno # 0
                 THEN /\ out' = Append(out, Line("parent", "create_failed", args.from_pid, 0))
                      /\ ParentExits(prctl_errno)
                      /\ UNCHANGED <<cookie, nextCookie>>
                 ELSE /\ cookie' = KernelCreate(cookie, ParentPid, args.from_pid,
                                                args.type, nextCookie)
                      /\ nextCookie' = nextCookie + 1
                      /\ ParentExits(0)
                      /\ UNCHANGED out
    /\ UNCHANGED <<args, argp, cargs, cpc, cstatus, run, hist, firstArg>>

\* fork fails: pid = -1 and error(pid, errno, ...) ends the process
ForkFails ==
    /\ out' = Append(out, Line("parent", "fork_failed", 0, 0))
    /\ ParentExits(-1)
    /\ UNCHANGED <<args, argp, cargs, cpc, cstatus, cookie, nextCookie, klog,
                   run, hist, firstArg>>

\* fork succeeds: the child is a copy of the parent and holds its cookie
ForkSucceeds(parentAt, childAt) ==
    /\ ppc' = parentAt
    /\ cpc' = childAt
    /\ cargs' = args
    /\ cookie' = [t \in DOMAIN cookie \cup {ChildPid} |->
                     IF t = ChildPid THEN cookie[ParentPid] ELSE cookie[t]]
    /\ UNCHANGED <<args, argp, pstatus, cstatus, nextCookie, klog, out, run, hist, firstArg>>

\* main, case SCHED_CORE_CMD_COPY: core_sched_copy_cookie up to fork
CopyFork ==
    /\ ppc = "main" /\ args.cmd = SCHED_CORE_CMD_COPY
    /\ \/ ForkFails
       \/ ForkSucceeds("wait", "pull")

\* a pull whose result is checked but whose cookie is never taken
PullCookieKeepsOwn(then) ==
    \E err \in KernelOutcomes(cookie, ChildPid, cargs.from_pid) :
       /\ klog' = Append(klog, Call("child", "PULL", cargs.from_pid,
                                    SCHED_CORE_SCOPE_PID, err))
       /\ IF prctl(err) # 0
          THEN /\ out' = Append(out, Line("child", "pull_failed", cargs.from_pid, 0))
               /\ ChildExits(prctl(err))
          ELSE /\ cpc' = then
               /\ UNCHANGED <<cstatus, out>>
       /\ UNCHANGED cookie

\* a pull whose failure is reported but does not end the child
PullCookieGoesOn(then) ==
    \E err \in KernelOutcomes(cookie, ChildPid, cargs.from_pid) :
       /\ klog' = Append(klog, Call("child", "PULL", cargs.from_pid,
                                    SCHED_CORE_SCOPE_PID, err))
       /\ IF prctl(err) # 0
          THEN /\ out' = Append(out, Line("child", "pull_failed", cargs.from_pid, 0))
               /\ UNCHANGED cookie
          ELSE /\ cookie' = KernelShareFrom(cookie, ChildPid, cargs.from_pid)
               /\ UNCHANGED out
       /\ cpc' = then
       /\ UNCHANGED cstatus

\* a pull made by the process that was invoked, not by its child
PullCookieInParent(then) ==
    \E err \in KernelOutcomes(cookie, ParentPid, cargs.from_pid) :
       LET prctl_errno == prctl(err)
       IN  /\ klog' = Append(klog, Call("child", "PULL", cargs.from_pid,
                                        SCHED_CORE_SCOPE_PID, err))
           /\ IF prctl_errno # 0
              THEN /\ out' = Append(out, Line("child", "pull_failed", cargs.from_pid, 0))
                   /\ ChildExits(prctl_errno)
                   /\ UNCHANGED cookie
              ELSE /\ cookie' = KernelShareFrom(cookie, ParentPid, cargs.from_pid)
                   /\ cpc' = then
                   /\ UNCHANGED <<cstatus, out>>

\* core_sched_pull_cookie in the child; on success the child goes on at `then`
PullCookie(then) ==
    \E err \in KernelOutcomes(cookie, ChildPid, cargs.from_pid) :
       LET prctl_errno == prctl(err)
       IN  /\ klog' = Append(klog, Call("child", "PULL", cargs.from_pid,
                                        SCHED_CORE_SCOPE_PID, err))
           /\ IF prctl_errno # 0
              THEN /\ out' = Append(out, Line("child", "pull_failed", cargs.from_pid, 0))
                   /\ ChildExits(prctl_errno)
                   /\ UNCHANGED cookie
              ELSE /\ cookie' = KernelShareFrom(cookie, ChildPid, cargs.from_pid)
                   /\ cpc' = then
                   /\ UNCHANGED <<cstatus, out>>

\* core_sched_copy_cookie, the child: core_sched_pull_cookie
CopyChildPull ==
    /\ cpc = "pull"
    /\ PullCookie("push")
    /\ UNCHANGED <<args, argp, ppc, pstatus, cargs, nextCookie, run, hist, firstArg>>

\* core_sched_push_cookie in the child of Copy, after which the child
\* returns to main
PushCookie(to, type) ==
    \E err \in KernelOutcomes(cookie, ChildPid, to) :
       LET prctl_errno == prctl(err)
       IN  /\ klog' = Append(klog, Call("child", "PUSH", to, type, err))
           /\ IF prctl_errno # 0
              THEN /\ out' = Append(out, Line("child", "push_failed", to, 0))
                   /\ ChildExits(prctl_errno)
                   /\ UNCHANGED cookie
              ELSE /\ cookie' = KernelShareTo(cookie, ChildPid, to, type)
                   /\ cpc' = "return"
                   /\ UNCHANGED <<cstatus, out>>

\* a child that pushes at thread scope whatever type was asked for
CopyChildPushThreadOnly ==
    /\ cpc = "push"
    /\ PushCookie(cargs.to_pid, SCHED_CORE_SCOPE_PID)
    /\ UNCHANGED <<args, argp, ppc, pstatus, cargs, nextCookie, run, hist, firstArg>>

\* core_sched_copy_cookie, the child: core_sched_push_cookie
CopyChildPush ==
    /\ cpc = "push"
    /\ PushCookie(cargs.to_pid, cargs.type)
    /\ UNCHANGED <<args, argp, ppc, pstatus, cargs, nextCookie, run, hist, firstArg>>

\* a child whose main returns 1 after the switch
CopyChildReturnsOne ==
    /\ cpc = "return"
    /\ ChildExits(1)
    /\ UNCHANGED <<args, argp, ppc, pstatus, cargs, cookie, nextCookie, klog,
                   out, run, hist, firstArg>>

\* the child of Copy is back in main: break leaves the switch and main
\* returns 0
CopyChildReturn ==
    /\ cpc = "return"
    /\ ChildExits(0)
    /\ UNCHANGED <<args, argp, ppc, pstatus, cargs, cookie, nextCookie, klog,
                   out, run, hist, firstArg>>

\* a parent that polls the child once instead of blocking on it
CopyWaitNoHang ==
    /\ ppc = "wait"
    /\ LET status == IF cpc = "exited" THEN WaitStatus(cstatus) ELSE 0
       IN  IF status # 0
           THEN /\ out' = Append(out, Line("parent", "copy_failed", args.from_pid,
                                           args.to_pid))
                /\ ParentExits(status)
           ELSE /\ ParentExits(0)
                /\ UNCHANGED out
    /\ UNCHANGED <<args, argp, cargs, cpc, cstatus, cookie, nextCookie, klog,
                   run, hist, firstArg>>

\* core_sched_copy_cookie, the parent: waitpid and the test of status
CopyWait ==
    /\ ppc = "wait" /\ cpc = "exited"
    /\ LET status == WaitStatus(cstatus)
       IN  IF status # 0
           THEN /\ out' = Append(out, Line("parent", "copy_failed", args.from_pid,
                                           args.to_pid))
                /\ ParentExits(status)
           ELSE /\ ParentExits(0)
                /\ UNCHANGED out
    /\ UNCHANGED <<args, argp, cargs, cpc, cstatus, cookie, nextCookie, klog,
                   run, hist, firstArg>>

\* an Exec that forks without looking at exec_argv_offset
ExecStartUnchecked ==
    /\ ppc = "main" /\ args.cmd = SCHED_CORE_CMD_EXEC
    /\ \/ ForkFails
       \/ ForkSucceeds("forked", "resolve")

\* core_sched_exec_with_cookie up to fork
ExecStart ==
    /\ ppc = "main" /\ args.cmd = SCHED_CORE_CMD_EXEC
    /\ IF args.exec_argv_offset = 0
       THEN /\ out' = Append(out, Line("parent", "exec_needs_program", 0, 0))
            /\ ParentExits(1)
            /\ UNCHANGED <<args, argp, cargs, cpc, cstatus, cookie, nextCookie,
                           klog, run, hist, firstArg>>
       ELSE \/ ForkFails
            \/ ForkSucceeds("forked", "resolve")

\* a parent that waits for the child and passes its status on
ExecParentExitAfterWait ==
    /\ ppc = "forked" /\ cpc = "exited"
    /\ ParentExits(cstatus)
    /\ UNCHANGED <<args, argp, cargs, cpc, cstatus, cookie, nextCookie, klog,
                   out, run, hist, firstArg>>

\* core_sched_exec_with_cookie, the parent after fork: exit(0)
ExecParentExit ==
    /\ ppc = "forked"
    /\ ParentExits(0)
    /\ UNCHANGED <<args, argp, cargs, cpc, cstatus, cookie, nextCookie, klog,
                   out, run, hist, firstArg>>

\* core_sched_exec_with_cookie, the child: pull from the source PID if one
\* was given, else create a cookie for getpid() with the type of args
ExecChildResolve ==
    /\ cpc = "resolve"
    /\ IF cargs.from_pid # 0
       THEN /\ PullCookie("get")
            /\ UNCHANGED <<cargs, nextCookie>>
       ELSE /\ cargs' = [cargs EXCEPT !.from_pid = ChildPid]
            /\ \E err \in KernelOutcomes(cookie, ChildPid, ChildPid) :
                  LET prctl_errno == prctl(err)
                  IN  /\ klog' = Append(klog, Call("child", "CREATE", ChildPid,
                                                   cargs.type, err))
                      /\ IF prctl_errno # 0
                         THEN /\ out' = Append(out, Line("child", "create_failed",
                                                         ChildPid, 0))
                              /\ ChildExits(prctl_errno)
                              /\ UNCHANGED <<cookie, nextCookie>>
                         ELSE /\ cookie' = KernelCreate(cookie, ChildPid, ChildPid,
                                                        cargs.type, nextCookie)
                              /\ nextCookie' = nextCookie + 1
                              /\ cpc' = "get"
                              /\ UNCHANGED <<cstatus, out>>
    /\ UNCHANGED <<args, argp, ppc, pstatus, run, hist, firstArg>>

\* a child that reports the cookie without looking at what prctl returned
ExecChildGetUnchecked ==
    /\ cpc = "get"
    /\ \E err \in KernelOutcomes(cookie, ChildPid, cargs.from_pid) :
          /\ klog' = Append(klog, Call("child", "GET", cargs.from_pid,
                                       SCHED_CORE_SCOPE_PID, err))
          /\ out' = Append(out, Line("child", "spawned", ChildPid,
                                     IF err = 0
                                     THEN KernelGet(cookie, ChildPid, cargs.from_pid)
                                     ELSE 0))
          /\ cpc' = "execvp"
    /\ UNCHANGED <<args, argp, ppc, pstatus, cargs, cstatus, cookie, nextCookie,
                   run, hist, firstArg>>

\* core_sched_exec_with_cookie, the child: core_sched_get_cookie(args) and
\* the line "spawned pid %d with core scheduling cookie 0x%lx"
ExecChildGet ==
    /\ cpc = "get"
    /\ \E err \in KernelOutcomes(cookie, ChildPid, cargs.from_pid) :
          LET prctl_errno == prctl(err)
              c == KernelGet(cookie, ChildPid, cargs.from_pid)
          IN  /\ klog' = Append(klog, Call("child", "GET", cargs.from_pid,
                                           SCHED_CORE_SCOPE_PID, err))
              /\ IF prctl_errno # 0
                 THEN /\ out' = Append(out, Line("child", "get_failed",
                                                 cargs.from_pid, 0))
                      /\ ChildExits(prctl_errno)
                 ELSE /\ out' = Append(out, Line("child", "spawned", ChildPid, c))
                      /\ cpc' = "execvp"
                      /\ UNCHANGED cstatus
    /\ UNCHANGED <<args, argp, ppc, pstatus, cargs, cookie, nextCookie, run, hist, firstArg>>

\* core_sched_exec_with_cookie, the child: execvp replaces the image, or
\* fails and error(-1, errno, ...) ends the child
ExecChildExecvp ==
    /\ cpc = "execvp"
    /\ \/ /\ cpc' = "execed"
          /\ UNCHANGED <<cstatus, out>>
       \/ /\ out' = Append(out, Line("child", "exec_failed", 0, 0))
          /\ ChildExits(-1)
    /\ UNCHANGED <<args, argp, ppc, pstatus, cargs, cookie, nextCookie, klog, run, hist, firstArg>>

(***************************************************************************)
(* The invocation is over when the top-level process has ended and its     *)
(* child, if any, has ended or become the program it was asked to run.     *)
(***************************************************************************)
Finished == ppc = "exited" /\ cpc \in {"none", "exited", "execed"}

\* the lines argp_error and argp_usage write
ArgpTags ==
    {"unknown_command", "bad_pid", "bad_type", "usage",
     copying_requires_dest_msg, retrieve_requires_source_msg}
ArgpFailed == \E i \in 1..Len(out) : out[i].tag \in ArgpTags

\* the shell (task 6) runs the same command line again: a new process with
\* the shell's cookie, in which argp_parse arrives at the same arguments
Repeat ==
    /\ Finished /\ ~ArgpFailed /\ run < MaxRuns
    /\ ppc' = "main"
    /\ pstatus' = -1
    /\ cargs' = InitArgs
    /\ cpc' = "none"
    /\ cstatus' = -1
    /\ cookie' = [t \in OtherTasks \cup {ParentPid} |->
                     IF t = ParentPid THEN cookie[6] ELSE cookie[t]]
    /\ klog' = <<>>
    /\ out' = <<>>
    /\ run' = run + 1
    /\ cookie0' = cookie'
    /\ prev' = [run |-> run, cmd |-> args.cmd, pstatus |-> pstatus,
                cstatus |-> cstatus, cookie |-> cookie]
    /\ UNCHANGED <<args, argp, nextCookie, firstArg, pidstr, pidres>>

\* the shell runs "get -p PID" on the task a Create was just run for: a new
\* process in which argp_parse arrives at that command and source
GetAfterCreate ==
    /\ Finished /\ ~ArgpFailed /\ run < MaxRuns
    /\ args.cmd = SCHED_CORE_CMD_CREATE
    /\ args' = [InitArgs EXCEPT !.cmd = SCHED_CORE_CMD_GET,
                                !.from_pid = args.from_pid]
    /\ argp' = ArgpGone
    /\ ppc' = "main"
    /\ pstatus' = -1
    /\ cargs' = InitArgs
    /\ cpc' = "none"
    /\ cstatus' = -1
    /\ cookie' = [t \in OtherTasks \cup {ParentPid} |->
                     IF t = ParentPid THEN cookie[6] ELSE cookie[t]]
    /\ klog' = <<>>
    /\ out' = <<>>
    /\ run' = run + 1
    /\ cookie0' = cookie'
    /\ prev' = [run |-> run, cmd |-> args.cmd, pstatus |-> pstatus,
                cstatus |-> cstatus, cookie |-> cookie]
    /\ firstArg' = "get"
    /\ UNCHANGED <<nextCookie, pidstr, pidres>>

Parse ==
    \/ \E w \in CmdStrings : ParseArg(w)
    \/ ParseQuotedArg
    \/ ArgpQuote
    \/ \E s \in PidStrings : ParseOptP(s)
    \/ \E s \in PidStrings : ParseOptD(s)
    \/ \E s \in TypeStrings : ParseOptT(s)
    \/ ParseSuccess

Next ==
    \/ Parse
    \/ MainGet
    \/ MainCreate
    \/ CopyFork
    \/ CopyChildPull
    \/ CopyChildPush
    \/ CopyChildReturn
    \/ CopyWait
    \/ ExecStart
    \/ ExecParentExit
    \/ ExecChildResolve
    \/ ExecChildGet
    \/ ExecChildExecvp

\* one invocation of the tool
Spec == Init /\ [][Next]_vars

\* one invocation in which the scheduler lets the two processes of a Copy
\* run whenever they can: the parent blocks in waitpid only
SpecFair ==
    /\ Spec
    /\ WF_vars(CopyFork) /\ WF_vars(CopyWait)
    /\ WF_vars(CopyChildPull) /\ WF_vars(CopyChildPush)
    /\ WF_vars(CopyChildReturn)

\* another invocation, "create -p t -t pid", is carried out while the child
\* of Exec stands between resolving its cookie and reporting it
EnvCreate ==
    /\ cpc = "get"
    /\ nextCookie <= MaxInitCookie + MaxEnv
    /\ \E t \in OtherTasks :
          cookie' = KernelCreate(cookie, t, t, SCHED_CORE_SCOPE_PID, nextCookie)
    /\ nextCookie' = nextCookie + 1
    /\ UNCHANGED <<args, argp, ppc, pstatus, cargs, cpc, cstatus, klog, out,
                   run, hist, firstArg>>

\* one invocation with other invocations going on beside it
SpecEnv == Init /\ [][Next \/ EnvCreate]_vars

\* invocations one after another: the same again, or a Get after a Create
NextRepeat == Next \/ Repeat \/ GetAfterCreate
(***************************************************************************)
(* parse_pid on its own: a string is chosen and parse_pid is applied to it *)
(***************************************************************************)
InitParsePid == MainStarts /\ pidstr \in PidInputs

ApplyParsePid ==
    /\ ~pidres.done
    /\ LET r == parse_pid(pidstr)
       IN  pidres' = [done |-> TRUE, ok |-> r.ok, pid |-> r.pid]
    /\ UNCHANGED <<args, argp, ppc, pstatus, cargs, cpc, cstatus, cookie,
                   nextCookie, klog, out, run, cookie0, prev, firstArg, pidstr>>

SpecParsePid == InitParsePid /\ [][ApplyParsePid]_vars

SpecRepeat == Init /\ [][NextRepeat]_vars

(***************************************************************************)
(* What the claims speak of.                                               *)
(***************************************************************************)
HasLine(by, tag) == \E i \in 1..Len(out) : out[i].by = by /\ out[i].tag = tag
KernelRejected(by) == \E i \in 1..Len(klog) : klog[i].by = by /\ klog[i].err # 0
IssuerStatus(by) == IF by = "parent" THEN pstatus ELSE cstatus

\* C1: in Copy, when the helper child ended with a non-zero status because
\* the kernel rejected its pull or push, the parent has written the copy
\* failure line naming source and destination and its own exit status is
\* non-zero.
C1_CopyFailureReachesCaller ==
    (args.cmd = SCHED_CORE_CMD_COPY /\ ppc = "exited" /\ cpc = "exited"
        /\ cstatus # 0 /\ KernelRejected("child"))
    => /\ \E i \in 1..Len(out) :
             out[i] = Line("parent", "copy_failed", args.from_pid, args.to_pid)
       /\ pstatus # 0

\* C2: the process whose GET, CREATE, PULL or PUSH the kernel rejected with
\* error number E has ended with exit status E.
C2_ExitStatusIsErrno ==
    \A i \in 1..Len(klog) :
       klog[i].err # 0 => IssuerStatus(klog[i].by) = klog[i].err

\* C3: when an error of any kind occurred in an invocation (a parse or
\* validation error, a kernel error in the parent or in the child, a failed
\* fork or a failed image replacement), the top-level process has ended
\* with a non-zero exit status once the invocation is over.
ErrorOccurred ==
    \/ ArgpFailed
    \/ HasLine("parent", "exec_needs_program")
    \/ KernelRejected("parent") \/ KernelRejected("child")
    \/ HasLine("parent", "fork_failed")
    \/ HasLine("child", "exec_failed")
C3_EveryErrorSurfaces == (Finished /\ ErrorOccurred) => pstatus # 0

\* C4: in Exec, once fork has succeeded the parent is never kept from
\* exiting (it does not wait for the child), it issues no kernel cookie
\* action, and when it has ended its exit status is 0, whatever the child
\* has done.
C4_ExecParentExitsZero ==
    (args.cmd = SCHED_CORE_CMD_EXEC /\ cpc # "none")
    => /\ ppc \in {"forked", "exited"}
       /\ ppc = "forked" => ENABLED ExecParentExit
       /\ ppc = "exited" => pstatus = 0
       /\ \A i \in 1..Len(klog) : klog[i].by # "parent"
C4_Witness ==
    /\ args.cmd = SCHED_CORE_CMD_EXEC /\ ppc = "exited" /\ pstatus = 0
    /\ cpc = "exited" /\ cstatus # 0 /\ HasLine("child", "exec_failed")

\* C5: an invocation that failed the parsing of a task identifier, of the
\* command or of the scope keyword, or the validation of its operands, has
\* issued no kernel cookie action, has forked no child, has changed no
\* cookie and has ended with a non-zero status.
C5_BadInputTouchesNothing ==
    (ArgpFailed \/ HasLine("parent", "exec_needs_program"))
    => /\ klog = <<>>
       /\ cpc = "none"
       /\ cookie = cookie0
       /\ ppc = "exited" /\ pstatus # 0
C5_Witness ==
    /\ args.cmd = SCHED_CORE_CMD_GET /\ args.from_pid = 0
    /\ HasLine("parent", retrieve_requires_source_msg)
    /\ ppc = "exited" /\ argp.argc > 1

\* C6: the validator accepts exactly Get and Create with a non-zero source,
\* Copy with a non-zero source and a non-zero destination, and Exec with or
\* without a source; it rejects Copy with a source and no destination with
\* the message naming the destination, and Get, Create and Copy without a
\* source with the message naming the source, whatever the destination.
Accepted(a) ==
    \/ a.cmd = SCHED_CORE_CMD_GET /\ a.from_pid # 0
    \/ a.cmd = SCHED_CORE_CMD_CREATE /\ a.from_pid # 0
    \/ a.cmd = SCHED_CORE_CMD_COPY /\ a.from_pid # 0 /\ a.to_pid # 0
    \/ a.cmd = SCHED_CORE_CMD_EXEC
RejectionMsg(a) ==
    IF a.cmd = SCHED_CORE_CMD_COPY /\ a.from_pid # 0
    THEN copying_requires_dest_msg
    ELSE retrieve_requires_source_msg
\* ARGP_KEY_SUCCESS has come and the arguments went to verify_arguments
Validated ==
    /\ ppc # "parse"
    /\ ~ \E t \in {"unknown_command", "bad_pid", "bad_type", "usage"} :
            HasLine("parent", t)
C6_ValidatorTable ==
    Validated
    => /\ IF Accepted(args)
          THEN ~ArgpFailed
          ELSE out = <<Line("parent", RejectionMsg(args), 0, 0)>>
       /\ args.cmd # SCHED_CORE_CMD_EXEC
          => /\ verify_arguments_part_000(args).ok = Accepted(args)
             /\ ~Accepted(args)
                => verify_arguments_part_000(args).error_msg = RejectionMsg(args)
C6_Witness ==
    /\ Validated
    /\ args.cmd = SCHED_CORE_CMD_COPY /\ args.from_pid # 0 /\ args.to_pid = 0
    /\ out = <<Line("parent", copying_requires_dest_msg, 0, 0)>>

\* C7: a Get that reached the kernel has issued exactly one kernel action,
\* a GET at Task scope on its source, has forked no child and has changed
\* no cookie; when the kernel answered with cookie zero it wrote the
\* no-cookie line and ended with status 1, and with a non-zero cookie it
\* printed that cookie and ended with status 0.
C7_GetReadsOnly ==
    (args.cmd = SCHED_CORE_CMD_GET /\ ppc = "exited" /\ ~ArgpFailed)
    => /\ Len(klog) = 1
       /\ klog[1].by = "parent" /\ klog[1].op = "GET"
       /\ klog[1].pid = args.from_pid /\ klog[1].type = SCHED_CORE_SCOPE_PID
       /\ cpc = "none"
       /\ cookie = cookie0
       /\ klog[1].err = 0
          => IF cookie0[args.from_pid] = 0
             THEN /\ out = <<Line("parent", "no_cookie", args.from_pid, 0)>>
                  /\ pstatus = 1
             ELSE /\ out = <<Line("parent", "cookie_is", args.from_pid,
                                  cookie0[args.from_pid])>>
                  /\ pstatus = 0
C7_Witness ==
    /\ args.cmd = SCHED_CORE_CMD_GET /\ ppc = "exited" /\ ~ArgpFailed
    /\ klog[1].err = 0 /\ cookie0[args.from_pid] = 0 /\ pstatus = 1

\* the tasks a PUSH to task t at the given scope reaches
InScope(u, t, type) ==
    \/ type = SCHED_CORE_SCOPE_PID /\ u = t
    \/ type = SCHED_CORE_SCOPE_TGID /\ Tgid(u) = Tgid(t)
    \/ type = SCHED_CORE_SCOPE_PGID /\ Pgid(u) = Pgid(t)

\* the helper child of Copy had its PULL and its PUSH accepted
CopySucceeded ==
    /\ args.cmd = SCHED_CORE_CMD_COPY
    /\ Len(klog) = 2 /\ klog[1].err = 0 /\ klog[2].err = 0

\* C8: after a successful Copy(src, dst, scope), with nothing else acting
\* on cookies, Get(dst) is the cookie Get(src) gave when the copy started,
\* every task in the requested scope of dst holds it, and a second run of
\* the same Copy leaves dst with the cookie the first run gave it.
C8_CopyTransfersCookie ==
    CopySucceeded
    => /\ KernelGet(cookie, ParentPid, args.to_pid) = cookie0[args.from_pid]
       /\ \A u \in DOMAIN cookie :
             InScope(u, args.to_pid, args.type) => cookie[u] = cookie0[args.from_pid]
       /\ (run > 1 /\ prev.cstatus = 0)
          => cookie[args.to_pid] = prev.cookie[args.to_pid]
C8_Witness ==
    /\ CopySucceeded /\ run = 2 /\ prev.cstatus = 0
    /\ args.from_pid = 3 /\ args.to_pid = 1 /\ args.type = SCHED_CORE_SCOPE_TGID
    /\ cookie[3] # 0 /\ cookie[2] = cookie[3] /\ prev.cookie[2] = cookie[3]

\* C9: in Exec, when the child replaces its image it holds, without a
\* source, a cookie that is non-zero and that no task held before, and,
\* with a source, the cookie of the source task.
C9_ExecChildCookie ==
    (args.cmd = SCHED_CORE_CMD_EXEC /\ cpc \in {"execvp", "execed"})
    => IF args.from_pid = 0
       THEN /\ KernelGet(cookie, ChildPid, ChildPid) # 0
            /\ \A t \in DOMAIN cookie0 : cookie0[t] # cookie[ChildPid]
       ELSE /\ cookie[ChildPid] = cookie[args.from_pid]
            /\ cookie[ChildPid] = cookie0[args.from_pid]
C9_Witness ==
    /\ args.cmd = SCHED_CORE_CMD_EXEC /\ cpc = "execed"
    /\ args.from_pid = 1 /\ cookie0[1] # cookie0[ParentPid]
    /\ cookie[ChildPid] = cookie0[1]

\* C10: the Exec child reaches image replacement only after its cookie
\* resolution (PULL from the source, or CREATE for itself) and the GET
\* after it were accepted and the spawn line was written; when the kernel
\* rejected one of them the child has ended with a non-zero status and
\* image replacement was never attempted.
ImageReplacementTried ==
    cpc \in {"execvp", "execed"} \/ HasLine("child", "exec_failed")
C10_ExecAfterCookie ==
    args.cmd = SCHED_CORE_CMD_EXEC
    => /\ ImageReplacementTried
          => /\ Len(klog) = 2
             /\ klog[1].op = (IF args.from_pid # 0 THEN "PULL" ELSE "CREATE")
             /\ klog[1].by = "child" /\ klog[1].err = 0
             /\ klog[2].op = "GET" /\ klog[2].by = "child" /\ klog[2].err = 0
             /\ Len(out) >= 1 /\ out[1].by = "child" /\ out[1].tag = "spawned"
       /\ KernelRejected("child")
          => /\ cpc = "exited" /\ cstatus # 0
             /\ ~ImageReplacementTried
C10_Witness ==
    /\ args.cmd = SCHED_CORE_CMD_EXEC /\ args.from_pid = 0
    /\ Len(klog) = 2 /\ klog[1].err = 0 /\ klog[2].err # 0
    /\ cpc = "exited" /\ cstatus # 0

\* C11: in Copy a PUSH is issued only by the helper child and only as its
\* second kernel action, after its PULL from the source was accepted; when
\* the PULL was rejected no PUSH is issued and every task the destination's
\* scope covers, the destination included, keeps its cookie.
C11_PushOnlyAfterPull ==
    args.cmd = SCHED_CORE_CMD_COPY
    => /\ \A i \in 1..Len(klog) :
             klog[i].op = "PUSH"
             => /\ i = 2 /\ klog[i].by = "child"
                /\ klog[1].op = "PULL" /\ klog[1].by = "child"
                /\ klog[1].pid = args.from_pid /\ klog[1].err = 0
       /\ (Len(klog) >= 1 /\ klog[1].err # 0)
          => /\ Len(klog) = 1
             /\ cpc = "exited"
             /\ \A u \in DOMAIN cookie0 :
                   InScope(u, args.to_pid, args.type) => cookie[u] = cookie0[u]
C11_Witness ==
    /\ args.cmd = SCHED_CORE_CMD_COPY /\ ppc = "exited"
    /\ Len(klog) = 1 /\ klog[1].op = "PULL" /\ klog[1].err # 0
    /\ args.from_pid = 3 /\ args.to_pid = 1 /\ cookie0[3] # cookie0[1]

\* C12: a Get on the task of a Create that succeeded just before, at any of
\* the three scopes and with nothing else acting on cookies in between,
\* that the kernel answers, prints a non-zero cookie and ends with status 0.
GetFollowsCreate ==
    /\ run = prev.run + 1 /\ prev.cmd = SCHED_CORE_CMD_CREATE /\ prev.pstatus = 0
    /\ args.cmd = SCHED_CORE_CMD_GET
    /\ ppc = "exited" /\ Len(klog) = 1 /\ klog[1].err = 0
C12_GetAfterCreateNonZero ==
    GetFollowsCreate
    => /\ Len(out) = 1 /\ out[1].tag = "cookie_is"
       /\ out[1].a = args.from_pid /\ out[1].b # 0
       /\ out[1].b = cookie[args.from_pid]
       /\ pstatus = 0
C12_Witness ==
    /\ GetFollowsCreate
    /\ args.from_pid = 1 /\ prev.cookie[1] # 0 /\ prev.cookie[1] = prev.cookie[3]
    /\ cookie0[1] = prev.cookie[1] /\ out[1].b = prev.cookie[1]

\* the decimal numeral of a natural number, and a numeral without the zeros
\* it is padded with
RECURSIVE Numeral(_)
Numeral(n) ==
    IF n < 10 THEN <<Digits[n + 1]>>
    ELSE Append(Numeral(n \div 10), Digits[(n % 10) + 1])
RECURSIVE Unpadded(_)
Unpadded(str) ==
    IF Len(str) > 1 /\ Head(str) = "0" THEN Unpadded(Tail(str)) ELSE str
AllDigits(str) == str # <<>> /\ \A i \in 1..Len(str) : IsDigit(str[i])

\* C13: parse_pid gives every string of decimal digits, however large, the
\* number it denotes in base 10, never another number, zero or a negative
\* one; the empty string and a string ending in a non-digit are rejected.
C13_ParsePidExact ==
    pidres.done
    => /\ AllDigits(pidstr)
          => /\ pidres.ok
             /\ pidres.pid >= 0
             /\ Numeral(pidres.pid) = Unpadded(pidstr)
       /\ (pidstr = <<>> \/ ~IsDigit(pidstr[Len(pidstr)])) => ~pidres.ok
\* what does hold: digit strings denoting at most INT_MAX are read exactly
ParsePidExactWithinInt ==
    (pidres.done /\ AllDigits(pidstr) /\ Len(Unpadded(pidstr)) <= 9)
    => pidres.ok /\ pidres.pid >= 0 /\ Numeral(pidres.pid) = Unpadded(pidstr)
ParsePidRejects ==
    (pidres.done /\ (pidstr = <<>> \/ ~IsDigit(pidstr[Len(pidstr)])))
    => ~pidres.ok

\* what each command needs of its arguments
Preconditions(a) ==
    /\ Accepted(a)
    /\ a.cmd = SCHED_CORE_CMD_EXEC => a.exec_argv_offset # 0
ForkTried == cpc # "none" \/ HasLine("parent", "fork_failed")

\* C14: the arguments with which main reaches its switch satisfy the
\* preconditions of their command: Get, Create and Copy have their non-zero
\* PIDs and Exec has a program to run.
C14_DispatchPreconditions ==
    ppc = "main" => Preconditions(args)
\* C14 as the code has it: at the switch Get, Create and Copy have their
\* PIDs; an Exec may arrive without a program, and is then turned away by
\* core_sched_exec_with_cookie with one line and status 1 before any fork or
\* prctl, so that whatever forks or calls the kernel has its preconditions.
C14_ActsOnPreconditions ==
    /\ (ppc = "main" /\ args.cmd # SCHED_CORE_CMD_EXEC) => Preconditions(args)
    /\ (klog # <<>> \/ ForkTried) => Preconditions(args)
    /\ (Validated /\ ~ArgpFailed /\ ppc # "main"
        /\ args.cmd = SCHED_CORE_CMD_EXEC /\ args.exec_argv_offset = 0)
       => /\ ppc = "exited" /\ pstatus = 1
          /\ out = <<Line("parent", "exec_needs_program", 0, 0)>>
          /\ klog = <<>> /\ ~ForkTried
C14_Witness ==
    /\ args.cmd = SCHED_CORE_CMD_EXEC /\ args.exec_argv_offset = 0
    /\ args.from_pid = 1
    /\ ppc = "exited" /\ pstatus = 1
    /\ HasLine("parent", "exec_needs_program")

\* main has gone through its switch with the command in args
Dispatched == ppc \notin {"parse", "main"} /\ ~ArgpFailed

\* C15: the command main carries out is the one its first positional
\* argument names, whatever other command words follow it before "--".
C15_FirstArgSelects ==
    (Dispatched /\ firstArg # "") => args.cmd = parse_cmd(firstArg).cmd
\* without a command word main carries out a Get
NoArgMeansGet ==
    (Dispatched /\ firstArg = "") => args.cmd = SCHED_CORE_CMD_GET

ChildCalls == { i \in 1..Len(klog) : klog[i].by = "child" }
\* the child of Copy made its two calls and both were accepted
BothAccepted ==
    /\ Len(klog) = 2
    /\ klog[1].op = "PULL" /\ klog[1].err = 0
    /\ klog[2].op = "PUSH" /\ klog[2].err = 0
\* the calls of the child of Copy: a PULL from the source, then at most a
\* PUSH to the destination, nothing else, and it writes only on a rejection
CopyChildCalls ==
    /\ ChildCalls = 1..Len(klog) /\ Len(klog) <= 2
    /\ Len(klog) >= 1 => klog[1].op = "PULL" /\ klog[1].pid = args.from_pid
    /\ Len(klog) = 2 => klog[2].op = "PUSH" /\ klog[2].pid = args.to_pid
    /\ \A i \in 1..Len(out) :
          out[i].by = "child" => out[i].tag \in {"pull_failed", "push_failed"}

\* C16: the child of Copy makes at most two kernel calls, PULL then PUSH,
\* and then ends without coming back to main's switch and without any
\* further call; its exit status is 0 exactly when both calls were accepted.
C16_ChildNeverReturns ==
    args.cmd = SCHED_CORE_CMD_COPY
    => /\ CopyChildCalls
       /\ cpc # "return"
       /\ cpc = "exited" => (cstatus = 0 <=> BothAccepted)
\* C16 as the code has it: the child makes at most two kernel calls, PULL
\* then PUSH, and no further call; a rejected call ends it on the spot with
\* a non-zero status; after two accepted calls it comes back to main, where
\* nothing is left to do, and main returns 0.
C16_ChildPullsPushesEnds ==
    args.cmd = SCHED_CORE_CMD_COPY
    => /\ CopyChildCalls
       /\ cpc = "return" => BothAccepted /\ cstatus = -1
       /\ cpc = "exited" => (cstatus = 0 <=> BothAccepted)
       /\ (cpc = "exited" /\ cstatus # 0) => klog[Len(klog)].err # 0
C16_Witness ==
    /\ args.cmd = SCHED_CORE_CMD_COPY /\ args.type = SCHED_CORE_SCOPE_TGID
    /\ cpc = "exited" /\ cstatus = 0 /\ ppc = "wait"
    /\ BothAccepted

CopyDispatched == ppc = "main" /\ args.cmd = SCHED_CORE_CMD_COPY
CopyOver == ppc = "exited" /\ cpc \in {"none", "exited"}
\* C17: a Copy that main has dispatched comes to an end, child and parent
\* both, when the two processes are scheduled fairly, and the parent never
\* ends while a child it forked is still running.
C17_CopyTerminates ==
    /\ CopyDispatched ~> CopyOver
    /\ []((args.cmd = SCHED_CORE_CMD_COPY /\ ppc = "exited") => CopyOver)
C17_Witness ==
    /\ args.cmd = SCHED_CORE_CMD_COPY /\ CopyOver /\ cpc = "exited"
    /\ Len(klog) = 2 /\ klog[2].err = ESRCH

\* C18: a Copy, accepted or rejected by the kernel, leaves the cookie of
\* every task outside the destination's requested scope as it was, the
\* invoking process and the source among them; only the helper child and
\* the tasks of that scope change.
C18_CopyTouchesScopeOnly ==
    args.cmd = SCHED_CORE_CMD_COPY
    => \A t \in DOMAIN cookie0 :
          ~InScope(t, args.to_pid, args.type) => cookie[t] = cookie0[t]
C18_Witness ==
    /\ args.cmd = SCHED_CORE_CMD_COPY /\ args.type = SCHED_CORE_SCOPE_PID
    /\ args.from_pid = 3 /\ args.to_pid = 1
    /\ BothAccepted /\ ppc = "exited"
    /\ cookie0[3] # cookie0[1] /\ cookie0[3] # cookie0[ParentPid]
    /\ cookie[1] # cookie0[1] /\ cookie[ChildPid] # cookie0[ParentPid]
    /\ cookie[2] = cookie0[2]

\* C19: the cookie in the line "spawned pid ... with core scheduling cookie"
\* is the cookie the child of Exec holds when it calls execvp, with and
\* without a source, whatever other invocations did to cookies between the
\* child's cookie resolution and its report.
C19_SpawnLineIsChildCookie ==
    (args.cmd = SCHED_CORE_CMD_EXEC /\ cpc \in {"execvp", "execed"})
    => /\ Len(out) = 1
       /\ out[1] = Line("child", "spawned", ChildPid, cookie[ChildPid])
\* without a source the line does give the child's own cookie
SpawnLineWithoutSource ==
    (args.cmd = SCHED_CORE_CMD_EXEC /\ cpc \in {"execvp", "execed"}
     /\ args.from_pid = 0)
    => out = <<Line("child", "spawned", ChildPid, cookie[ChildPid])>>

\* C20: an Exec changes the cookie of no task but the child it forks, with
\* or without a source and at every scope, the default PGID included: the
\* invoking process and the other tasks of its process group keep theirs.
C20_ExecTouchesChildOnly ==
    args.cmd = SCHED_CORE_CMD_EXEC
    => \A t \in DOMAIN cookie0 : cookie[t] = cookie0[t]
\* with a source, or at thread scope, that is so
ExecWithSourceTouchesChildOnly ==
    (args.cmd = SCHED_CORE_CMD_EXEC
     /\ (args.from_pid # 0 \/ args.type = SCHED_CORE_SCOPE_PID))
    => \A t \in DOMAIN cookie0 : cookie[t] = cookie0[t]

====
